---- MODULE Spec2Model ----
(***************************************************************************)
(* Model of salt/modules/testinframod.py: the generated verification       *)
(* entry point _run_tests, the member resolver _get_method_result and the  *)
(* assertion evaluator _apply_assertion.                                   *)
(*                                                                         *)
(* Python values are records [t, v]: t is the Python type and v a sequence *)
(* of integers (the value of a bool or an int, the code points of a str,   *)
(* the reduced numerator and denominator of a float).                      *)
(* A dict expectation is a record with t = "dict" and the set of its keys. *)
(* operator_attrs holds the attributes assigned to the operator module     *)
(* since its import, by the code points of their names; the module is one  *)
(* per process and outlives an invocation. operator_entry is the module as *)
(* the invocation under way found it.                                      *)
(***************************************************************************)
EXTENDS Integers, Sequences, FiniteSets, TLC

VARIABLES pc, module_name, declared, mod, methods, additional_args,
          modinstance, valid_methods, idx, success, pass_msgs, fail_msgs,
          raised, evaluated, fn_call, fn_ret, operator_attrs, operator_entry

vars == <<pc, module_name, declared, mod, methods, additional_args,
          modinstance, valid_methods, idx, success, pass_msgs, fail_msgs,
          raised, evaluated, fn_call, fn_ret, operator_attrs, operator_entry>>

(* ------------------------------ bounds -------------------------------- *)

MaxChecks == 3

MaxStrLen == 2

(* --------------------------- Python values ----------------------------- *)

PyBool(b) == [t |-> "bool", v |-> <<IF b THEN 1 ELSE 0>>]

PyInt(n) == [t |-> "int", v |-> <<n>>]

PyStr(s) == [t |-> "str", v |-> s]

PyNone == [t |-> "none", v |-> <<>>]

PyMatch(start) == [t |-> "match", v |-> <<start>>]

RECURSIVE Gcd(_, _)
Gcd(x, y) == IF y = 0 THEN x ELSE Gcd(y, x % y)

\* the float num / den, for num >= 0 and den > 0
PyFloat(num, den) == [t |-> "float", v |-> <<num \div Gcd(num, den), den \div Gcd(num, den)>>]

\* an object of the class named: an attrgetter, itemgetter or methodcaller,
\* a module, NotImplemented
PyObject(class) == [t |-> "object", v |-> <<>>, class |-> class]

PyDict(keys, parameter, expected, comparison) ==
    [t |-> "dict", keys |-> keys, parameter |-> parameter,
     expected |-> expected, comparison |-> comparison]

\* bool(x): the truth value Python gives an object
Truthy(x) ==
    CASE x.t = "bool"  -> x.v[1] = 1
      [] x.t = "int"   -> x.v[1] # 0
      [] x.t = "str"   -> x.v # <<>>
      [] x.t = "none"  -> FALSE
      [] x.t = "match" -> TRUE
      [] x.t = "float" -> x.v[1] # 0
      [] x.t = "object" -> TRUE
      [] x.t = "dict"  -> x.keys # {}

IsNumber(x) == x.t \in {"bool", "int"}

\* a == b
PyEq(a, b) ==
    \/ (IsNumber(a) /\ IsNumber(b) /\ a.v = b.v)
    \/ (~IsNumber(a) /\ a.t = b.t /\ a.v = b.v)

\* value equality in place of identity
PyIs_ValueEq(a, b) == PyEq(a, b)

\* a is b, for operands of which one is a singleton object (True, False, None)
PyIs(a, b) == a.t = b.t /\ a.v = b.v

RECURSIVE SeqLt(_, _)
\* lexicographic order of two code-point sequences
SeqLt(a, b) ==
    IF b = <<>> THEN FALSE
    ELSE IF a = <<>> THEN TRUE
    ELSE IF Head(a) # Head(b) THEN Head(a) < Head(b)
    ELSE SeqLt(Tail(a), Tail(b))

Orderable(a, b) ==
    \/ (IsNumber(a) /\ IsNumber(b))
    \/ (a.t = "str" /\ b.t = "str")

\* a < b, defined when Orderable(a, b)
PyLt(a, b) == IF IsNumber(a) THEN a.v[1] < b.v[1] ELSE SeqLt(a.v, b.v)

\* the positions at which sub occurs in s
SubstrAt(sub, s) ==
    {i \in 1..(Len(s) - Len(sub) + 1) :
        \A j \in 1..Len(sub) : sub[j] = s[i + j - 1]}

\* the positions at which the pattern matches in s; code point 46 (".")
\* matches any character, every other character of the alphabet is literal
MatchAt(pattern, s) ==
    {i \in 1..(Len(s) - Len(pattern) + 1) :
        \A j \in 1..Len(pattern) : pattern[j] = 46 \/ pattern[j] = s[i + j - 1]}

Min(S) == CHOOSE x \in S : \A y \in S : x <= y

(* ----------------------- outcomes of a call --------------------------- *)

\* a normal return of value val
Returns(val) ==
    [exc |-> "none", why |-> "", about |-> <<>>, val |-> val, kind |-> "", invoked |-> <<>>]

\* an exception of type exc leaving the function
Raises(exc, why, about) ==
    [exc |-> exc, why |-> why, about |-> about, val |-> PyNone, kind |-> "", invoked |-> <<>>]

(* ------------------------ Comparator registry ------------------------- *)

\* The attributes of the operator module (CPython 3.11), grouped by what
\* they do; each function is listed with its in-place and dunder aliases.

EqNames == {"eq", "__eq__"}

NeNames == {"ne", "__ne__"}

LtNames == {"lt", "__lt__"}

GtNames == {"gt", "__gt__"}

LeNames == {"le", "__le__"}

GeNames == {"ge", "__ge__"}

ContainsNames == {"contains", "__contains__"}

AddNames == {"add", "iadd", "__add__", "__iadd__"}

ConcatNames == {"concat", "iconcat", "__concat__", "__iconcat__"}

SubNames == {"sub", "isub", "__sub__", "__isub__"}

MulNames == {"mul", "imul", "__mul__", "__imul__"}

FloordivNames == {"floordiv", "ifloordiv", "__floordiv__", "__ifloordiv__"}

ModNames == {"mod", "imod", "__mod__", "__imod__"}

TruedivNames == {"truediv", "itruediv", "__truediv__", "__itruediv__"}

PowNames == {"pow", "ipow", "__pow__", "__ipow__"}

LshiftNames == {"lshift", "ilshift", "__lshift__", "__ilshift__"}

RshiftNames == {"rshift", "irshift", "__rshift__", "__irshift__"}

AndNames == {"and_", "iand", "__and__", "__iand__"}

OrNames == {"or_", "ior", "__or__", "__ior__"}

XorNames == {"xor", "ixor", "__xor__", "__ixor__"}

GetitemNames == {"getitem", "__getitem__"}

\* attributes that are not callable with two of the values modelled: the
\* functions of one or of three arguments, matmul, delitem, call, and the
\* module's non-callable attributes
NotBinaryNames ==
    {"abs", "_abs", "__abs__", "neg", "__neg__", "pos", "__pos__",
     "not_", "__not__", "truth", "index", "__index__",
     "inv", "__inv__", "invert", "__invert__",
     "matmul", "imatmul", "__matmul__", "__imatmul__",
     "delitem", "__delitem__", "setitem", "__setitem__", "call", "__call__",
     "__all__", "__builtins__", "__cached__", "__doc__", "__file__",
     "__loader__", "__name__", "__package__", "__spec__"}

\* the attributes the module takes from its type, types.ModuleType, and from
\* object that are not callable with two of the values modelled
InheritedNotBinaryNames ==
    {"__annotations__", "__delattr__", "__dict__", "__dir__", "__format__",
     "__getattribute__", "__getstate__", "__hash__", "__init_subclass__",
     "__new__", "__reduce__", "__reduce_ex__", "__repr__", "__sizeof__", "__str__"}

\* the names getattr(operator, name) finds on the type of the module and not
\* in the module itself
InheritedNames ==
    {"__class__", "__init__", "__setattr__", "__subclasshook__"}
    \cup InheritedNotBinaryNames

\* the names getattr(operator, name) resolves on the module as imported
OperatorNames ==
    EqNames \cup NeNames \cup LtNames \cup GtNames \cup LeNames \cup GeNames
    \cup ContainsNames \cup {"is_", "is_not"}
    \cup AddNames \cup ConcatNames \cup SubNames \cup MulNames \cup FloordivNames
    \cup ModNames \cup TruedivNames \cup PowNames \cup LshiftNames \cup RshiftNames
    \cup AndNames \cup OrNames \cup XorNames \cup GetitemNames
    \cup {"countOf", "indexOf", "length_hint", "attrgetter", "itemgetter", "methodcaller"}
    \cup NotBinaryNames
    \cup InheritedNames

\* the str "eq"
NameEq == <<101, 113>>

\* the code points of the attribute names that a str of the model spells or
\* that __init__ assigns
Spelling ==
    [n \in {"eq", "12", "__name__", "__doc__", "__package__", "__loader__", "__spec__",
            "__annotations__"} |->
        CASE n = "eq" -> NameEq
          [] n = "12" -> <<49, 50>>
          [] n = "__name__" -> <<95, 95, 110, 97, 109, 101, 95, 95>>
          [] n = "__doc__" -> <<95, 95, 100, 111, 99, 95, 95>>
          [] n = "__package__" -> <<95, 95, 112, 97, 99, 107, 97, 103, 101, 95, 95>>
          [] n = "__loader__" -> <<95, 95, 108, 111, 97, 100, 101, 114, 95, 95>>
          [] n = "__spec__" -> <<95, 95, 115, 112, 101, 99, 95, 95>>
          [] n = "__annotations__" ->
                <<95, 95, 97, 110, 110, 111, 116, 97, 116, 105, 111, 110, 115, 95, 95>>]

\* the operator module as imported: nothing assigned
Imported == [k \in {} |-> PyNone]

\* setattr(operator, name, value)
Assign(attrs, name, value) ==
    [k \in DOMAIN attrs \cup {name} |-> IF k = name THEN value ELSE attrs[k]]

\* the name is an attribute assigned to the module since its import; such an
\* attribute hides the one the module was imported with
Assigned(attrs, name) == name \in DOMAIN Spelling /\ Spelling[name] \in DOMAIN attrs

RECURSIVE Pow(_, _)
\* x ** n for n >= 0
Pow(x, n) == IF n <= 0 THEN 1 ELSE x * Pow(x, n - 1)

RECURSIVE Bitwise(_, _, _)
\* x & y, x | y or x ^ y for x, y >= 0
Bitwise(op, x, y) ==
    IF x = 0 /\ y = 0 THEN 0
    ELSE LET p == x % 2
             q == y % 2
             bit == CASE op = "and" -> IF p = 1 /\ q = 1 THEN 1 ELSE 0
                      [] op = "or"  -> IF p = 1 \/ q = 1 THEN 1 ELSE 0
                      [] op = "xor" -> IF p # q THEN 1 ELSE 0
         IN  bit + 2 * Bitwise(op, x \div 2, y \div 2)

RECURSIVE Repeat(_, _)
\* s * n
Repeat(s, n) == IF n <= 0 THEN <<>> ELSE s \o Repeat(s, n - 1)

\* the characters of s equal to x, as positions
CharsEqual(s, x) == {i \in 1..Len(s) : x.t = "str" /\ x.v = <<s[i]>>}

\* the arithmetic functions, on two numbers
Arithmetic(cmp, x, y) ==
    CASE cmp \in AddNames -> Returns(PyInt(x + y))
      [] cmp \in SubNames -> Returns(PyInt(x - y))
      [] cmp \in MulNames -> Returns(PyInt(x * y))
      [] cmp \in PowNames -> Returns(PyInt(Pow(x, y)))
      [] cmp \in LshiftNames -> Returns(PyInt(x * Pow(2, y)))
      [] cmp \in RshiftNames -> Returns(PyInt(x \div Pow(2, y)))
      [] cmp \in FloordivNames ->
            IF y = 0 THEN Raises("ZeroDivisionError", "division_by_zero", <<>>)
            ELSE Returns(PyInt(x \div y))
      [] cmp \in ModNames ->
            IF y = 0 THEN Raises("ZeroDivisionError", "division_by_zero", <<>>)
            ELSE Returns(PyInt(x % y))
      [] cmp \in TruedivNames ->
            IF y = 0 THEN Raises("ZeroDivisionError", "division_by_zero", <<>>)
            ELSE Returns(PyFloat(x, y))

ArithmeticNames ==
    AddNames \cup SubNames \cup MulNames \cup PowNames \cup LshiftNames \cup RshiftNames
    \cup FloordivNames \cup ModNames \cup TruedivNames

BitwiseNames == AndNames \cup OrNames \cup XorNames

\* operator.<cmp>(a, b) for an attribute the module was imported with, or
\* re.search(a, b) for cmp = "search"; the numbers modelled are not negative.
\* __class__(a, b) is a new module named a, __init__(a, b) and
\* __setattr__(a, b) return None and assign to the module (operator_after)
Comparator(cmp, a, b) ==
    CASE cmp \in EqNames -> Returns(PyBool(PyEq(a, b)))
      [] cmp \in NeNames -> Returns(PyBool(~PyEq(a, b)))
      [] cmp = "is_" -> Returns(PyBool(PyIs(a, b)))
      [] cmp = "is_not" -> Returns(PyBool(~PyIs(a, b)))
      [] cmp \in LtNames \cup GtNames \cup LeNames \cup GeNames ->
            IF ~Orderable(a, b) THEN Raises("TypeError", "unorderable", <<>>)
            ELSE Returns(PyBool(
                    CASE cmp \in LtNames -> PyLt(a, b)
                      [] cmp \in GtNames -> PyLt(b, a)
                      [] cmp \in LeNames -> ~PyLt(b, a)
                      [] cmp \in GeNames -> ~PyLt(a, b)))
      [] cmp \in ContainsNames ->
            IF a.t # "str" \/ b.t # "str" THEN Raises("TypeError", "not_a_container", <<>>)
            ELSE Returns(PyBool(SubstrAt(b.v, a.v) # {}))
      [] cmp = "search" ->
            IF a.t # "str" \/ b.t # "str" THEN Raises("TypeError", "not_a_string", <<>>)
            ELSE IF MatchAt(a.v, b.v) = {} THEN Returns(PyNone)
            ELSE Returns(PyMatch(Min(MatchAt(a.v, b.v))))
      [] cmp \in ConcatNames \/ (cmp \in AddNames /\ ~(IsNumber(a) /\ IsNumber(b))) ->
            IF a.t = "str" /\ b.t = "str" THEN Returns(PyStr(a.v \o b.v))
            ELSE Raises("TypeError", "unsupported_operands", <<>>)
      [] cmp \in MulNames /\ ~(IsNumber(a) /\ IsNumber(b)) ->
            IF a.t = "str" /\ IsNumber(b) THEN Returns(PyStr(Repeat(a.v, b.v[1])))
            ELSE IF IsNumber(a) /\ b.t = "str" THEN Returns(PyStr(Repeat(b.v, a.v[1])))
            ELSE Raises("TypeError", "unsupported_operands", <<>>)
      [] cmp \in ArithmeticNames /\ ~(cmp \in AddNames \cup MulNames
                                        /\ ~(IsNumber(a) /\ IsNumber(b))) ->
            IF IsNumber(a) /\ IsNumber(b) THEN Arithmetic(cmp, a.v[1], b.v[1])
            ELSE Raises("TypeError", "unsupported_operands", <<>>)
      [] cmp \in BitwiseNames ->
            IF ~(IsNumber(a) /\ IsNumber(b))
            THEN Raises("TypeError", "unsupported_operands", <<>>)
            ELSE LET op == CASE cmp \in AndNames -> "and"
                             [] cmp \in OrNames -> "or"
                             [] cmp \in XorNames -> "xor"
                     n == Bitwise(op, a.v[1], b.v[1])
                 IN  IF a.t = "bool" /\ b.t = "bool" THEN Returns(PyBool(n = 1))
                     ELSE Returns(PyInt(n))
      [] cmp \in GetitemNames ->
            IF a.t # "str" \/ ~IsNumber(b) THEN Raises("TypeError", "not_subscriptable", <<>>)
            ELSE IF b.v[1] >= Len(a.v) \/ b.v[1] < 0 - Len(a.v)
            THEN Raises("IndexError", "out_of_range", <<>>)
            ELSE IF b.v[1] >= 0 THEN Returns(PyStr(<<a.v[b.v[1] + 1]>>))
            ELSE Returns(PyStr(<<a.v[Len(a.v) + b.v[1] + 1]>>))
      [] cmp = "countOf" ->
            IF a.t # "str" THEN Raises("TypeError", "not_iterable", <<>>)
            ELSE Returns(PyInt(Cardinality(CharsEqual(a.v, b))))
      [] cmp = "indexOf" ->
            IF a.t # "str" THEN Raises("TypeError", "not_iterable", <<>>)
            ELSE IF CharsEqual(a.v, b) = {} THEN Raises("ValueError", "not_in_sequence", <<>>)
            ELSE Returns(PyInt(Min(CharsEqual(a.v, b)) - 1))
      [] cmp = "length_hint" ->
            IF ~IsNumber(b) THEN Raises("TypeError", "default_not_an_integer", <<>>)
            ELSE IF a.t = "str" THEN Returns(PyInt(Len(a.v)))
            ELSE Returns(PyInt(b.v[1]))
      [] cmp = "attrgetter" ->
            IF a.t = "str" /\ b.t = "str" THEN Returns(PyObject("attrgetter"))
            ELSE Raises("TypeError", "attribute_name_not_a_string", <<>>)
      [] cmp = "itemgetter" -> Returns(PyObject("itemgetter"))
      [] cmp = "methodcaller" ->
            IF a.t = "str" THEN Returns(PyObject("methodcaller"))
            ELSE Raises("TypeError", "method_name_not_a_string", <<>>)
      [] cmp = "__class__" ->
            IF a.t = "str" THEN Returns(PyObject("module"))
            ELSE Raises("TypeError", "module_name_not_a_string", <<>>)
      [] cmp = "__subclasshook__" -> Returns(PyObject("NotImplementedType"))
      [] cmp \in {"__init__", "__setattr__"} ->
            IF a.t = "str" THEN Returns(PyNone)
            ELSE Raises("TypeError", "attribute_name_not_a_string", <<>>)
      [] cmp \in NotBinaryNames \cup InheritedNotBinaryNames ->
            Raises("TypeError", "not_callable_with_two_arguments", <<>>)

\* the comparator applied with the actual result first
ApplyComparison_Swapped(cmp, expected, result) == Comparator(cmp, result, expected)

\* comparison(expected["expected"], result)
ApplyComparison(cmp, expected, result) == Comparator(cmp, expected, result)

(* --------------------------- apply_assertion -------------------------- *)

\* _apply_assertion(expected, result) with the operator module holding the
\* assigned attributes attrs; an assigned attribute is one of the values
\* modelled, none of which is callable
apply_assertion(attrs, expected, result) ==
    IF expected.t = "bool" THEN Returns(PyBool(PyIs(result, expected)))
    ELSE IF expected.t = "dict" THEN
        IF "comparison" \notin expected.keys
        THEN Raises("KeyError", "comparison", <<>>)
        ELSE IF /\ ~Assigned(attrs, expected.comparison)
                /\ expected.comparison \notin OperatorNames
                /\ expected.comparison # "search"
        THEN Raises("InvalidArgumentError", "invalid_comparison", <<expected.comparison>>)
        ELSE IF "expected" \notin expected.keys
        THEN Raises("KeyError", "expected", <<>>)
        ELSE IF Assigned(attrs, expected.comparison)
        THEN Raises("TypeError", "not_callable", <<expected.comparison>>)
        ELSE ApplyComparison(expected.comparison, expected.expected, result)
    ELSE Raises("TypeError", "expected_bool_or_dict", <<expected.t>>)

\* the attributes assigned to the operator module once
\* _apply_assertion(expected, result) has run: the comparisons __setattr__
\* and __init__ of the module assign to it, taking expected["expected"] as
\* the attribute name and as the module name, and
\* getattr(operator, "__annotations__") gives the module an empty dict of
\* annotations
operator_after(attrs, expected, result) ==
    IF /\ expected.t = "dict"
       /\ "comparison" \in expected.keys
       /\ expected.comparison = "__annotations__"
       /\ ~Assigned(attrs, expected.comparison)
    THEN Assign(attrs, Spelling["__annotations__"], PyDict({}, PyNone, PyNone, ""))
    ELSE IF /\ expected.t = "dict"
       /\ {"expected", "comparison"} \subseteq expected.keys
       /\ ~Assigned(attrs, expected.comparison)
       /\ expected.expected.t = "str"
    THEN CASE expected.comparison = "__setattr__" ->
                Assign(attrs, expected.expected.v, result)
           [] expected.comparison = "__init__" ->
                Assign(Assign(Assign(Assign(Assign(attrs,
                    Spelling["__name__"], expected.expected),
                    Spelling["__doc__"], result),
                    Spelling["__package__"], PyNone),
                    Spelling["__loader__"], PyNone),
                    Spelling["__spec__"], PyNone)
           [] OTHER -> attrs
    ELSE attrs

(* -------------------------- get_method_result ------------------------- *)

\* An attribute of a resource class or of an instance of it: a property
\* whose getter returns ret, a function of one argument that returns ret
\* when called with key and False otherwise, or a plain value ret.
Attr(kind, ret, key) == [kind |-> kind, ret |-> ret, key |-> key]

Property(ret) == Attr("property", ret, PyNone)

Function(key, ret) == Attr("function", ret, key)

Value(ret) == Attr("value", ret, PyNone)

NoAttrs == [n \in {} |-> Value(PyNone)]

\* the call of an operation with one argument
Invoke(attr, parameter) == IF PyEq(parameter, attr.key) THEN attr.ret ELSE PyBool(FALSE)

\* getattr(module_instance, method_name): the instance's own attribute, or
\* the attribute its class defines
InstanceGetattr(module_, module_instance, method_name) ==
    IF method_name \in DOMAIN module_.attrs /\ module_.attrs[method_name].kind = "property"
    THEN [found |-> "handle", obj |-> module_.attrs[method_name]]
    ELSE IF method_name \in DOMAIN module_instance.attrs
    THEN [found |-> "instance", obj |-> module_instance.attrs[method_name]]
    ELSE IF method_name \in DOMAIN module_.attrs
    THEN [found |-> "handle", obj |-> module_.attrs[method_name]]
    ELSE [found |-> "none", obj |-> Value(PyNone)]

\* the instance consulted before the class
LookupMember_InstanceFirst(module_, module_instance, method_name) ==
    IF method_name \in DOMAIN module_instance.attrs
    THEN [found |-> "instance", obj |-> module_instance.attrs[method_name]]
    ELSE IF method_name \in DOMAIN module_.attrs
    THEN [found |-> "handle", obj |-> module_.attrs[method_name]]
    ELSE [found |-> "none", obj |-> Value(PyNone)]

\* getattr(module_, method_name), and getattr(module_instance, method_name)
\* when the class raises AttributeError
LookupMember(module_, module_instance, method_name) ==
    IF method_name \in DOMAIN module_.attrs
    THEN [found |-> "handle", obj |-> module_.attrs[method_name]]
    ELSE InstanceGetattr(module_, module_instance, method_name)

\* getattr(module_instance, method_name)(method_arg["parameter"])
CallOperation(module_, module_instance, method_name, method_arg) ==
    LET target == InstanceGetattr(module_, module_instance, method_name).obj
    IN  IF method_arg.t # "dict"
        THEN Raises("TypeError", "not_subscriptable", <<method_arg.t>>)
        ELSE IF "parameter" \notin method_arg.keys
        THEN Raises("InvalidArgumentError", "no_parameter", <<method_name>>)
        ELSE IF target.kind # "function"
        THEN Raises("TypeError", "not_callable", <<method_name>>)
        ELSE [Returns(Invoke(target, method_arg.parameter))
                EXCEPT !.invoked = <<method_arg.parameter>>]

get_method_result(module_, module_instance, method_name, method_arg) ==
    LET m == LookupMember(module_, module_instance, method_name)
    IN  IF m.found = "none"
        THEN Raises("InvalidArgumentError", "no_member", <<module_.id, method_name>>)
        ELSE IF m.obj.kind = "property"
        THEN [Returns(m.obj.ret) EXCEPT !.kind = "property"]
        ELSE IF m.obj.kind = "function"
        THEN IF ~Truthy(method_arg)
             THEN [Raises("InvalidArgumentError", "need_dict", <<module_.id, method_name>>)
                     EXCEPT !.kind = "function"]
             ELSE [CallOperation(module_, module_instance, method_name, method_arg)
                     EXCEPT !.kind = "function"]
        ELSE [Returns(m.obj.ret) EXCEPT !.kind = "value"]

(* --------------------------- the resources ---------------------------- *)

\* "2.7.9-1" and "3.0.0" as code points
V279 == <<50, 46, 55, 46, 57, 45, 49>>

V300 == <<51, 46, 48, 46, 48>>

\* "master"
Master == <<109, 97, 115, 116, 101, 114>>

\* the members every resource class of the model defines
ClassAttrs ==
    [n \in {"is_installed", "is_running", "version", "level", "contains", "shadow"} |->
        CASE n = "is_installed" -> Property(PyBool(TRUE))
          [] n = "is_running"   -> Property(PyBool(FALSE))
          [] n = "version"      -> Property(PyStr(V279))
          [] n = "level"        -> Value(PyInt(1))
          [] n = "contains"     -> Function(PyStr(Master), PyBool(TRUE))
          [] n = "shadow"       -> Property(PyBool(TRUE))]

\* the attributes the constructor sets on the instance
InstanceAttrs ==
    [n \in {"extra", "shadow"} |->
        CASE n = "extra"  -> Value(PyBool(TRUE))
          [] n = "shadow" -> Value(PyBool(FALSE))]

\* a resource class: its constructor's parameters (without self), those
\* without a default, and its members
Resource(id, params, required) ==
    [id |-> id, params |-> params, required |-> required,
     attrs |-> ClassAttrs, iattrs |-> InstanceAttrs]

\* snake_to_camel_case(module_name, uppercamel=True)
SnakeToCamel ==
    [n \in {"package", "mount_point", "system_info", "service", "socket", "iptables"} |->
        CASE n = "package"     -> "Package"
          [] n = "mount_point" -> "MountPoint"
          [] n = "system_info" -> "SystemInfo"
          [] n = "service"     -> "Service"
          [] n = "socket"      -> "Socket"
          [] n = "iptables"    -> "Iptables"]

\* the classes the backend implements; get_module raises NotImplementedError
\* for any other
BackendModules ==
    [n \in {"Package", "MountPoint", "SystemInfo", "Service", "Socket"} |->
        CASE n = "Package"    -> Resource(n, <<"name", "family">>, {"name"})
          [] n = "MountPoint" -> Resource(n, <<"path", "_attrs_cache">>, {"path"})
          [] n = "SystemInfo" -> Resource(n, <<>>, {})
          [] n = "Service"    -> Resource(n, <<"name">>, {"name"})
          [] n = "Socket"     -> Resource(n, <<"socketspec", "port">>, {"socketspec", "port"})]

NoModule == [id |-> "", params |-> <<>>, required |-> {}, attrs |-> NoAttrs, iattrs |-> NoAttrs]

NoInstance == [cls |-> "", attrs |-> NoAttrs, args |-> {}]

\* _get_module(module_name)
get_module(name) ==
    IF SnakeToCamel[name] \in DOMAIN BackendModules
    THEN [exc |-> "none", mod |-> BackendModules[SnakeToCamel[name]]]
    ELSE [exc |-> "NotImplementedError", mod |-> NoModule]

(* ------------------------------ run_tests ----------------------------- *)

\* the subject name the entry point is called with
SubjectName == "salt-minion"

Check(name, arg) == [name |-> name, arg |-> arg]

Range(seq) == {seq[i] : i \in 1..Len(seq)}

Names(checks) == {c.name : c \in checks}

\* the first character of each name a check may carry
FirstChar ==
    [n \in {"is_installed", "is_running", "version", "level", "contains", "shadow",
            "extra", "bogus", "family", "port", "_env", "_attrs_cache"} |->
        CASE n \in {"is_installed", "is_running"} -> "i"
          [] n = "version"  -> "v"
          [] n = "level"    -> "l"
          [] n = "contains" -> "c"
          [] n = "shadow"   -> "s"
          [] n = "extra"    -> "e"
          [] n = "bogus"    -> "b"
          [] n = "family"   -> "f"
          [] n = "port"     -> "p"
          [] n \in {"_env", "_attrs_cache"} -> "_"]

\* meth_name.startswith("_")
StartsWithUnderscore(n) == FirstChar[n] = "_"

\* set(parameters).intersection(set(methods))
BoundNames(parameters, checks) == Range(parameters) \cap Names(Range(checks))

\* mod(name, **additional_args) or mod() raises TypeError: a parameter
\* without a default is left unbound, or the first parameter is given twice
ConstructFails(m, args) ==
    IF Len(m.params) > 1
    THEN \/ m.params[1] \in Names(args)
         \/ m.required \ ({m.params[1]} \cup Names(args)) # {}
    ELSE m.required # {}

\* the checks whose name does not start with "_", in their order
ValidMethods(checks) == SelectSeq(checks, LAMBDA c : ~StartsWithUnderscore(c.name))

\* the message of one evaluated check
Message(passed, meth, arg, result) ==
    [passed |-> passed, modname |-> module_name, n |-> SubjectName,
     m |-> meth, a |-> arg, r |-> result]

\* success left as it was by a failed assertion
NextSuccess_Sticky(old, assertion_result) == old

\* success after one assertion
NextSuccess(old, assertion_result) == IF ~Truthy(assertion_result) THEN FALSE ELSE old

\* the fail message put in front of the earlier ones
RecordFail_Prepend(msgs, msg) == <<msg>> \o msgs

\* fail_msgs.append(...)
RecordFail(msgs, msg) == Append(msgs, msg)

\* pass_msgs.append(...)
RecordPass(msgs, msg) == Append(msgs, msg)

NotRaised == [exc |-> "none", why |-> "", stage |-> ""]

\* NotImplementedError left to reach the caller
ResolveModule_NoCatch ==
    /\ pc = "resolve"
    /\ LET r == get_module(module_name)
       IN  IF r.exc = "NotImplementedError"
           THEN /\ pc' = "raised"
                /\ raised' = [exc |-> r.exc, why |-> "unsupported", stage |-> "resolve"]
                /\ UNCHANGED mod
           ELSE /\ mod' = r.mod
                /\ pc' = "bind"
                /\ UNCHANGED raised
    /\ UNCHANGED <<module_name, declared, methods, additional_args, modinstance,
                   valid_methods, idx, success, pass_msgs, fail_msgs, evaluated,
                   fn_call, fn_ret, operator_attrs, operator_entry>>

\* mod = _get_module(module_name), NotImplementedError turned into a report
ResolveModule ==
    /\ pc = "resolve"
    /\ LET r == get_module(module_name)
       IN  IF r.exc = "NotImplementedError"
           THEN /\ success' = FALSE
                /\ pc' = "returned"
                /\ UNCHANGED mod
           ELSE /\ mod' = r.mod
                /\ pc' = "bind"
                /\ UNCHANGED success
    /\ UNCHANGED <<module_name, declared, methods, additional_args, modinstance,
                   valid_methods, idx, pass_msgs, fail_msgs, raised, evaluated,
                   fn_call, fn_ret, operator_attrs, operator_entry>>

\* the declared checks named like a constructor parameter are popped into
\* additional_args
BindArgs ==
    /\ pc = "bind"
    /\ LET bound == BoundNames(mod.params, methods)
       IN  /\ additional_args' = {c \in Range(methods) : c.name \in bound}
           /\ methods' = SelectSeq(methods, LAMBDA c : c.name \notin bound)
    /\ pc' = "construct"
    /\ UNCHANGED <<module_name, declared, mod, modinstance, valid_methods, idx,
                   success, pass_msgs, fail_msgs, raised, evaluated, fn_call, fn_ret, operator_attrs, operator_entry>>

\* a failed construction turned into a failed report
Construct_Reports ==
    /\ pc = "construct"
    /\ IF ConstructFails(mod, additional_args)
       THEN /\ pc' = "returned"
            /\ success' = FALSE
            /\ UNCHANGED modinstance
       ELSE /\ modinstance' = [cls |-> mod.id, attrs |-> mod.iattrs, args |-> additional_args]
            /\ pc' = "filter"
            /\ UNCHANGED success
    /\ UNCHANGED <<module_name, declared, mod, methods, additional_args, valid_methods,
                   idx, pass_msgs, fail_msgs, raised, evaluated, fn_call, fn_ret, operator_attrs, operator_entry>>

\* modinstance = mod(name, **additional_args) or mod(); TypeError is logged
\* and raised again
Construct ==
    /\ pc = "construct"
    /\ IF ConstructFails(mod, additional_args)
       THEN /\ pc' = "raised"
            /\ raised' = [exc |-> "TypeError", why |-> "instantiate", stage |-> "construct"]
            /\ UNCHANGED modinstance
       ELSE /\ modinstance' = [cls |-> mod.id, attrs |-> mod.iattrs, args |-> additional_args]
            /\ pc' = "filter"
            /\ UNCHANGED raised
    /\ UNCHANGED <<module_name, declared, mod, methods, additional_args, valid_methods,
                   idx, success, pass_msgs, fail_msgs, evaluated, fn_call, fn_ret, operator_attrs, operator_entry>>

\* valid_methods: the remaining checks without the reserved names
FilterMethods ==
    /\ pc = "filter"
    /\ valid_methods' = ValidMethods(methods)
    /\ idx' = 1
    /\ pc' = "loop"
    /\ UNCHANGED <<module_name, declared, mod, methods, additional_args, modinstance,
                   success, pass_msgs, fail_msgs, raised, evaluated, fn_call, fn_ret, operator_attrs, operator_entry>>

\* one iteration of the loop over valid_methods: the member is resolved and
\* invoked, the assertion applied and its message recorded; an exception of
\* either call leaves _run_tests
EvalCheck ==
    /\ pc = "loop"
    /\ idx <= Len(valid_methods)
    /\ LET meth == valid_methods[idx].name
           arg == valid_methods[idx].arg
           result == get_method_result(mod, modinstance, meth, arg)
           assertion == apply_assertion(operator_attrs, arg, result.val)
       IN  /\ evaluated' = Append(evaluated, meth)
           /\ operator_attrs' = IF result.exc # "none" THEN operator_attrs
                                ELSE operator_after(operator_attrs, arg, result.val)
           /\ IF result.exc # "none"
              THEN /\ pc' = "raised"
                   /\ raised' = [exc |-> result.exc, why |-> result.why, stage |-> "check"]
                   /\ UNCHANGED <<idx, success, pass_msgs, fail_msgs>>
              ELSE IF assertion.exc # "none"
              THEN /\ pc' = "raised"
                   /\ raised' = [exc |-> assertion.exc, why |-> assertion.why, stage |-> "check"]
                   /\ UNCHANGED <<idx, success, pass_msgs, fail_msgs>>
              ELSE /\ success' = NextSuccess(success, assertion.val)
                   /\ IF ~Truthy(assertion.val)
                      THEN /\ fail_msgs' = RecordFail(fail_msgs, Message(FALSE, meth, arg, result.val))
                           /\ UNCHANGED pass_msgs
                      ELSE /\ pass_msgs' = RecordPass(pass_msgs, Message(TRUE, meth, arg, result.val))
                           /\ UNCHANGED fail_msgs
                   /\ idx' = idx + 1
                   /\ UNCHANGED <<pc, raised>>
    /\ UNCHANGED <<module_name, declared, mod, methods, additional_args, modinstance,
                   valid_methods, fn_call, fn_ret, operator_entry>>

\* return success, pass_msgs, fail_msgs
Return ==
    /\ pc = "loop"
    /\ idx > Len(valid_methods)
    /\ pc' = "returned"
    /\ UNCHANGED <<module_name, declared, mod, methods, additional_args, modinstance,
                   valid_methods, idx, success, pass_msgs, fail_msgs, raised, evaluated,
                   fn_call, fn_ret, operator_attrs, operator_entry>>

(* ------------------------------- inputs ------------------------------- *)

AllKeys == {"parameter", "expected", "comparison"}

\* the declared checks an invocation is given
CheckPool ==
    { Check("is_installed", PyBool(TRUE)),
      Check("is_installed", PyStr(Master)),
      Check("is_running", PyBool(TRUE)),
      Check("level", PyBool(TRUE)),
      Check("version", PyDict({"expected", "comparison"}, PyNone, PyStr(V279), "eq")),
      Check("version", PyDict({"expected", "comparison"}, PyNone, PyStr(V300), "frobnicate")),
      Check("version", PyDict({"expected", "comparison"}, PyNone, PyStr(NameEq), "__setattr__")),
      Check("level", PyDict({"expected", "comparison"}, PyNone, PyInt(1), "eq")),
      Check("contains", PyDict(AllKeys, PyStr(Master), PyBool(TRUE), "is_")),
      Check("contains", PyBool(FALSE)),
      Check("extra", PyBool(TRUE)),
      Check("bogus", PyBool(TRUE)),
      Check("family", PyStr(<<52>>)),
      Check("port", PyInt(22)),
      Check("_env", PyStr(<<98>>)),
      Check("_attrs_cache", PyNone) }

\* keyword arguments: name to value, each name once, in the order given
Declarations ==
    {s \in UNION {[1..n -> CheckPool] : n \in 0..MaxChecks} :
        \A i, j \in 1..Len(s) : i # j => s[i].name # s[j].name}

\* the operator module as an invocation or an assertion can find it: as
\* imported, or as earlier assertions of the process have left it, by
\* __setattr__ with the expected values "eq" and "12"; the set is closed
\* under the assertions of CheckPool
OperatorStates ==
    {Imported,
     Assign(Imported, NameEq, PyStr(V279)),
     Assign(Assign(Imported, NameEq, PyStr(V279)), Spelling["12"], PyNone)}

NoCall == [fn |-> ""]

NoRet == Returns(PyNone)

Init ==
    /\ pc = "resolve"
    /\ module_name \in DOMAIN SnakeToCamel
    /\ declared \in Declarations
    /\ methods = declared
    /\ mod = NoModule
    /\ additional_args = {}
    /\ modinstance = NoInstance
    /\ valid_methods = <<>>
    /\ idx = 0
    /\ success = TRUE
    /\ pass_msgs = <<>>
    /\ fail_msgs = <<>>
    /\ raised = NotRaised
    /\ evaluated = <<>>
    /\ fn_call = NoCall
    /\ fn_ret = NoRet
    /\ operator_attrs \in OperatorStates
    /\ operator_entry = operator_attrs

Next == ResolveModule \/ BindArgs \/ Construct \/ FilterMethods \/ EvalCheck \/ Return

Spec == Init /\ [][Next]_vars

(* ------------- get_method_result over its input space ---------------- *)

IdleDispatcher ==
    /\ module_name = "package"
    /\ declared = <<>>
    /\ methods = <<>>
    /\ mod = NoModule
    /\ additional_args = {}
    /\ modinstance = NoInstance
    /\ valid_methods = <<>>
    /\ idx = 0
    /\ success = TRUE
    /\ pass_msgs = <<>>
    /\ fail_msgs = <<>>
    /\ raised = NotRaised
    /\ evaluated = <<>>

\* what a class may define under the name looked up
ClassAttrChoices ==
    {NoAttrs} \cup
    {[n \in {"member"} |-> d] :
        d \in {Property(PyBool(TRUE)), Property(PyStr(V279)),
               Function(PyStr(Master), PyBool(TRUE)), Function(PyInt(1), PyInt(7)),
               Value(PyInt(1)), Value(PyBool(TRUE))}}

\* what an instance may hold under the name looked up
InstanceAttrChoices ==
    {NoAttrs} \cup
    {[n \in {"member"} |-> d] :
        d \in {Value(PyBool(FALSE)), Value(PyNone), Function(PyStr(Master), PyInt(0))}}

\* the expectations a check may carry
MemberArgs ==
    {PyBool(TRUE), PyBool(FALSE), PyNone, PyStr(Master)} \cup
    {PyDict(k, p, PyBool(TRUE), "is_") :
        k \in {{}, {"parameter"}, {"expected", "comparison"}, AllKeys},
        p \in {PyStr(Master), PyInt(1), PyNone}}

InitMember ==
    /\ pc = "call"
    /\ \E ca \in ClassAttrChoices, ia \in InstanceAttrChoices, a \in MemberArgs :
          fn_call = [fn |-> "get_method_result",
                     module_ |-> [id |-> "Probe", params |-> <<>>, required |-> {},
                                  attrs |-> ca, iattrs |-> ia],
                     module_instance |-> [cls |-> "Probe", attrs |-> ia, args |-> {}],
                     method_name |-> "member",
                     method_arg |-> a]
    /\ fn_ret = NoRet
    /\ operator_attrs = Imported
    /\ operator_entry = Imported
    /\ IdleDispatcher

CallGetMethodResult ==
    /\ pc = "call"
    /\ fn_call.fn = "get_method_result"
    /\ fn_ret' = get_method_result(fn_call.module_, fn_call.module_instance,
                                   fn_call.method_name, fn_call.method_arg)
    /\ pc' = "ret"
    /\ UNCHANGED <<module_name, declared, mod, methods, additional_args, modinstance,
                   valid_methods, idx, success, pass_msgs, fail_msgs, raised, evaluated,
                   fn_call, operator_attrs, operator_entry>>

NextMember == CallGetMethodResult

SpecMember == InitMember /\ [][NextMember]_vars

(* -------------- apply_assertion over its input space ------------------ *)

Strings ==
    {PyStr(s) : s \in UNION {[1..n -> {49, 50, 46}] : n \in 0..MaxStrLen}}
    \cup {PyStr(V279), PyStr(V300), PyStr(NameEq)}

Results ==
    {PyBool(TRUE), PyBool(FALSE), PyNone, PyInt(0), PyInt(1), PyInt(2)} \cup Strings

ComparisonNames == OperatorNames \cup {"search", "frobnicate", "12"}

Expectations ==
    {PyBool(TRUE), PyBool(FALSE), PyNone, PyInt(1), PyStr(<<49>>)}
    \cup {PyDict({"expected", "comparison"}, PyNone, e, c) : e \in Results, c \in ComparisonNames}
    \cup {PyDict({"comparison"}, PyNone, PyNone, c) : c \in ComparisonNames}
    \cup {PyDict({"expected"}, PyNone, e, "") : e \in Results}
    \cup {PyDict({}, PyNone, PyNone, "")}

Singleton(x) == x.t \in {"bool", "none"}

\* identity is the language's for True, False and None only: is_ and is_not
\* are given operands of which one is such an object
IdentityDecided(e, r) ==
    (e.t = "dict" /\ e.comparison \in {"is_", "is_not"} /\ "expected" \in e.keys)
        => (Singleton(e.expected) \/ Singleton(r))

InitAssert ==
    /\ pc = "call"
    /\ \E e \in Expectations, r \in Results, a \in OperatorStates :
          /\ IdentityDecided(e, r)
          /\ fn_call = [fn |-> "apply_assertion", expected |-> e, result |-> r,
                        attrs |-> a]
          /\ operator_attrs = a
          /\ operator_entry = a
    /\ fn_ret = NoRet
    /\ IdleDispatcher

CallApplyAssertion ==
    /\ pc = "call"
    /\ fn_call.fn = "apply_assertion"
    /\ fn_ret' = apply_assertion(operator_attrs, fn_call.expected, fn_call.result)
    /\ operator_attrs' = operator_after(operator_attrs, fn_call.expected, fn_call.result)
    /\ pc' = "ret"
    /\ UNCHANGED <<module_name, declared, mod, methods, additional_args, modinstance,
                   valid_methods, idx, success, pass_msgs, fail_msgs, raised, evaluated,
                   fn_call, operator_entry>>

NextAssert == CallApplyAssertion

SpecAssert == InitAssert /\ [][NextAssert]_vars

(* ------------------------------ properties ---------------------------- *)

Terminated == pc \in {"returned", "raised"}

Unsupported == get_module(module_name).exc = "NotImplementedError"

RECURSIVE OperatorBefore(_)
\* the attributes assigned to the operator module when the i-th of the
\* valid checks is evaluated, in an invocation that found the module as
\* operator_entry
OperatorBefore(i) ==
    IF i <= 1 THEN operator_entry
    ELSE LET c == valid_methods[i - 1]
             result == get_method_result(mod, modinstance, c.name, c.arg)
         IN  IF result.exc # "none" THEN OperatorBefore(i - 1)
             ELSE operator_after(OperatorBefore(i - 1), c.arg, result.val)

\* the outcome of the assertion of the i-th of the valid checks
AssertionOf(i) ==
    LET c == valid_methods[i]
    IN  apply_assertion(OperatorBefore(i), c.arg,
                        get_method_result(mod, modinstance, c.name, c.arg).val)

\* the i-th of the valid checks raises in get_method_result or in
\* apply_assertion
CheckErrors(i) ==
    LET c == valid_methods[i]
    IN  \/ get_method_result(mod, modinstance, c.name, c.arg).exc # "none"
        \/ AssertionOf(i).exc # "none"

MessagesFor(msgs, meth) == {i \in 1..Len(msgs) : msgs[i].m = meth}

MessageNames(msgs) == [i \in 1..Len(msgs) |-> msgs[i].m]

\* C1: an invocation that constructed its instance ends by returning a
\* report, every valid check was evaluated, and a check whose evaluation
\* raises is recorded as exactly one fail message with success false.
C1_PerCheckErrorRecorded ==
    (Terminated /\ modinstance # NoInstance) =>
        /\ pc = "returned"
        /\ evaluated = [i \in 1..Len(valid_methods) |-> valid_methods[i].name]
        /\ \A i \in 1..Len(valid_methods) :
              CheckErrors(i) =>
                /\ ~success
                /\ Cardinality(MessagesFor(fail_msgs, valid_methods[i].name)) = 1
                /\ MessagesFor(pass_msgs, valid_methods[i].name) = {}

\* C2: for a resource type the backend does not support the invocation
\* never raises, never binds, constructs or evaluates anything, and it
\* returns (False, [], []).
C2_UnsupportedReturnsFailedReport ==
    Unsupported =>
        /\ pc \in {"resolve", "returned"}
        /\ raised = NotRaised
        /\ mod = NoModule
        /\ additional_args = {}
        /\ modinstance = NoInstance
        /\ evaluated = <<>>
        /\ (pc = "returned" => /\ success = FALSE
                               /\ pass_msgs = <<>>
                               /\ fail_msgs = <<>>)

C2_Witness == Unsupported /\ pc = "returned" /\ Len(declared) >= 2

ConstructionFailed ==
    /\ pc \in {"filter", "loop", "returned", "raised"}
    /\ mod # NoModule
    /\ ConstructFails(mod, additional_args)

\* C3 as stated: a failed construction ends the invocation with the report
\* (False, [], []) and no check evaluated.
C3_ConstructFailureReported ==
    ConstructionFailed =>
        /\ pc = "returned"
        /\ success = FALSE
        /\ pass_msgs = <<>>
        /\ fail_msgs = <<>>
        /\ evaluated = <<>>

\* C3 amended: a failed construction ends the invocation at once by raising
\* the TypeError to the caller; no report is returned, no check is evaluated
\* and no message is recorded.
C3_ConstructFailureRaises ==
    ConstructionFailed =>
        /\ pc = "raised"
        /\ raised = [exc |-> "TypeError", why |-> "instantiate", stage |-> "construct"]
        /\ modinstance = NoInstance
        /\ evaluated = <<>>
        /\ pass_msgs = <<>>
        /\ fail_msgs = <<>>

C3_Witness ==
    /\ ConstructionFailed
    /\ pc = "raised"
    /\ \E i \in 1..Len(methods) : ~StartsWithUnderscore(methods[i].name)

\* C4 as stated: in every returned report success is true if and only if
\* fail_messages is empty.
C4_SuccessIffNoFailMessages ==
    pc = "returned" => (success <=> fail_msgs = <<>>)

\* C4 amended: in every report returned after the resource type was
\* resolved, success is the conjunction of the outcomes of the evaluated
\* checks, that is true if and only if fail_messages is empty; with no
\* declared check the report is (True, [], []).
C4_SuccessIffNoFailAfterResolve ==
    (pc = "returned" /\ mod # NoModule) =>
        /\ success <=> fail_msgs = <<>>
        /\ success <=> (\A i \in 1..Len(valid_methods) : Truthy(AssertionOf(i).val))
        /\ declared = <<>> => (success /\ pass_msgs = <<>> /\ fail_msgs = <<>>)

C4_Witness ==
    /\ pc = "returned"
    /\ mod # NoModule
    /\ ~success
    /\ Len(fail_msgs) = 1
    /\ Len(pass_msgs) >= 1

\* C5: a declared check whose name starts with "_" is never bound as a
\* constructor argument, never evaluated and never named in a message.
C5_ReservedNeverUsed ==
    \A i \in 1..Len(declared) :
        StartsWithUnderscore(declared[i].name) =>
            /\ declared[i].name \notin Names(additional_args)
            /\ declared[i].name \notin Range(evaluated)
            /\ MessagesFor(pass_msgs, declared[i].name) = {}
            /\ MessagesFor(fail_msgs, declared[i].name) = {}

\* the member of the call under way resolves to an operation
ResolvesToOperation ==
    LET m == LookupMember(fn_call.module_, fn_call.module_instance, fn_call.method_name)
    IN  m.found # "none" /\ m.obj.kind = "function"

\* C6: for a member that is an operation, a bare boolean or a dict without
\* "parameter" gives InvalidArgumentError and no call of the operation; a
\* dict with "parameter" calls the operation with exactly that argument.
C6_OperationNeedsParameter ==
    (pc = "ret" /\ fn_call.fn = "get_method_result" /\ ResolvesToOperation) =>
        LET arg == fn_call.method_arg
            target == InstanceGetattr(fn_call.module_, fn_call.module_instance,
                                      fn_call.method_name).obj
        IN  /\ (arg.t = "bool" \/ (arg.t = "dict" /\ "parameter" \notin arg.keys)) =>
                  (fn_ret.exc = "InvalidArgumentError" /\ fn_ret.invoked = <<>>)
            /\ (arg.t = "dict" /\ "parameter" \in arg.keys /\ target.kind = "function") =>
                  (fn_ret.exc = "none" /\ fn_ret.invoked = <<arg.parameter>>)

\* C7: with a boolean expectation the assertion passes if and only if the
\* actual result is a boolean of the same value; a result of any other type
\* fails against True and against False.
C7_BooleanIdentity ==
    (pc = "ret" /\ fn_call.fn = "apply_assertion" /\ fn_call.expected.t = "bool") =>
        /\ fn_ret.exc = "none"
        /\ Truthy(fn_ret.val) <=>
              (fn_call.result.t = "bool" /\ fn_call.result.v = fn_call.expected.v)

C7_Witness ==
    /\ pc = "ret"
    /\ fn_call.fn = "apply_assertion"
    /\ fn_call.expected = PyBool(TRUE)
    /\ fn_call.result = PyInt(1)
    /\ ~Truthy(fn_ret.val)

\* C8: the member is taken from the class when the class defines the name,
\* from the instance only otherwise; its kind and, for a property or a plain
\* value, its result are those of the definition found first; a name neither
\* defines gives InvalidArgumentError naming the module and the member.
C8_HandleBeforeInstance ==
    (pc = "ret" /\ fn_call.fn = "get_method_result") =>
        LET ca == fn_call.module_.attrs
            ia == fn_call.module_instance.attrs
            n == fn_call.method_name
        IN  IF n \in DOMAIN ca
            THEN /\ fn_ret.kind = ca[n].kind
                 /\ ca[n].kind \in {"property", "value"} =>
                        (fn_ret.exc = "none" /\ fn_ret.val = ca[n].ret)
            ELSE IF n \in DOMAIN ia
            THEN /\ fn_ret.kind = ia[n].kind
                 /\ ia[n].kind = "value" => (fn_ret.exc = "none" /\ fn_ret.val = ia[n].ret)
            ELSE /\ fn_ret.exc = "InvalidArgumentError"
                 /\ fn_ret.why = "no_member"
                 /\ fn_ret.about = <<fn_call.module_.id, n>>

C8_Witness ==
    /\ pc = "ret"
    /\ fn_call.fn = "get_method_result"
    /\ "member" \in DOMAIN fn_call.module_.attrs
    /\ "member" \in DOMAIN fn_call.module_instance.attrs
    /\ fn_call.module_.attrs["member"] = Property(PyBool(TRUE))
    /\ fn_call.module_instance.attrs["member"] = Value(PyBool(FALSE))
    /\ fn_ret.kind = "property"
    /\ fn_ret.val = PyBool(TRUE)

\* e < r in Python's order of numbers and of strings
Below(e, r) == IF IsNumber(e) THEN e.v[1] < r.v[1] ELSE SeqLt(e.v, r.v)

\* C9: with a dict expectation naming a registered comparator the outcome is
\* the truth of comparator(expected, actual result), the expected value
\* first: lt passes iff expected < actual, contains iff the actual result
\* occurs in the expected value, search iff the expected value, as a
\* pattern, matches in the actual result, and likewise for the other
\* two-argument functions of the operator module (sub, floordiv, getitem,
\* countOf, length_hint, methodcaller) and for the attributes the module
\* takes from its type (__setattr__(expected, actual) assigns the actual
\* result to the attribute named by the expected value and fails,
\* __class__(expected, actual) is a module named by the expected value and
\* passes); eq with expected "2.7.9-1" passes against "2.7.9-1" and fails
\* against "3.0.0". A name under which an earlier assertion assigned a
\* value to the module is registered with that value, which cannot be
\* called: the assertion raises TypeError.
C9_ExpectedFirst ==
    (/\ pc = "ret"
     /\ fn_call.fn = "apply_assertion"
     /\ fn_call.expected.t = "dict"
     /\ {"expected", "comparison"} \subseteq fn_call.expected.keys
     /\ \/ fn_call.expected.comparison \in OperatorNames \cup {"search"}
        \/ Assigned(fn_call.attrs, fn_call.expected.comparison)) =>
        LET c == fn_call.expected.comparison
            e == fn_call.expected.expected
            r == fn_call.result
            ok == fn_ret.exc = "none"
            passed == Truthy(fn_ret.val)
            numbers == IsNumber(e) /\ IsNumber(r)
        IN  IF Assigned(fn_call.attrs, c)
            THEN fn_ret.exc = "TypeError" /\ operator_attrs = fn_call.attrs
            ELSE
            /\ fn_ret.exc \in {"none", "TypeError", "ZeroDivisionError", "IndexError", "ValueError"}
            /\ c \in InheritedNotBinaryNames => fn_ret.exc = "TypeError"
            /\ c \in {"__setattr__", "__init__", "__class__"} => (ok <=> e.t = "str")
            /\ (c \in {"__setattr__", "__init__"} /\ ok) => ~passed
            /\ (c = "__setattr__" /\ ok) =>
                  (e.v \in DOMAIN operator_attrs /\ operator_attrs[e.v] = r)
            /\ (c = "__init__" /\ ok) =>
                  /\ operator_attrs[Spelling["__name__"]] = e
                  /\ operator_attrs[Spelling["__doc__"]] = r
            /\ (c = "__class__" /\ ok) => passed
            /\ c = "__subclasshook__" => (ok /\ passed)
            /\ c \notin {"__setattr__", "__init__", "__annotations__"} =>
                  operator_attrs = fn_call.attrs
            /\ c \in EqNames \cup NeNames \cup {"is_", "is_not"} => ok
            /\ c \in LtNames \cup GtNames \cup LeNames \cup GeNames => (ok <=> Orderable(e, r))
            /\ c \in ContainsNames \cup {"search"} => (ok <=> (e.t = "str" /\ r.t = "str"))
            /\ c \in NotBinaryNames => fn_ret.exc = "TypeError"
            /\ ok =>
                  /\ c \in EqNames => (passed <=> PyEq(e, r))
                  /\ c \in NeNames => (passed <=> ~PyEq(e, r))
                  /\ c = "is_" => (passed <=> (e.t = r.t /\ e.v = r.v))
                  /\ c = "is_not" => (passed <=> ~(e.t = r.t /\ e.v = r.v))
                  /\ c \in LtNames => (passed <=> Below(e, r))
                  /\ c \in GtNames => (passed <=> Below(r, e))
                  /\ c \in LeNames => (passed <=> ~Below(r, e))
                  /\ c \in GeNames => (passed <=> ~Below(e, r))
                  /\ c \in ContainsNames => (passed <=> SubstrAt(r.v, e.v) # {})
                  /\ c = "search" => (passed <=> MatchAt(e.v, r.v) # {})
            /\ c \in SubNames => (ok <=> numbers)
            /\ (c \in SubNames /\ ok) => fn_ret.val = PyInt(e.v[1] - r.v[1])
            /\ (c \in FloordivNames /\ numbers) =>
                  IF r.v[1] = 0 THEN fn_ret.exc = "ZeroDivisionError"
                  ELSE ok /\ (passed <=> e.v[1] >= r.v[1])
            /\ c \in GetitemNames =>
                  /\ ok <=> (e.t = "str" /\ IsNumber(r) /\ r.v[1] < Len(e.v))
                  /\ ok => fn_ret.val = PyStr(<<e.v[r.v[1] + 1]>>)
            /\ c = "countOf" =>
                  /\ ok <=> e.t = "str"
                  /\ ok => (passed <=> (r.t = "str" /\ \E i \in 1..Len(e.v) : r.v = <<e.v[i]>>))
            /\ c = "length_hint" => (ok <=> IsNumber(r))
            /\ c = "methodcaller" => (ok <=> e.t = "str")
            /\ (c = "eq" /\ e = PyStr(V279) /\ r = PyStr(V279)) => passed
            /\ (c = "eq" /\ e = PyStr(V279) /\ r = PyStr(V300)) => ~passed

C9_Witness ==
    /\ pc = "ret"
    /\ fn_call.fn = "apply_assertion"
    /\ fn_call.expected.t = "dict"
    /\ fn_call.expected.keys = {"expected", "comparison"}
    /\ fn_call.expected.comparison = "lt"
    /\ fn_call.expected.expected = PyInt(1)
    /\ fn_call.result = PyInt(2)
    /\ fn_ret.val = PyBool(TRUE)

\* the declared checks that are neither reserved nor constructor arguments
Eligible ==
    SelectSeq(declared, LAMBDA c : /\ ~StartsWithUnderscore(c.name)
                                   /\ c.name \notin Range(mod.params))

\* msgs names, in the declared order, exactly the eligible checks it holds
InDeclaredOrder(msgs) ==
    MessageNames(msgs) =
        MessageNames(SelectSeq([i \in 1..Len(Eligible) |-> [m |-> Eligible[i].name]],
                               LAMBDA x : MessagesFor(msgs, x.m) # {}))

\* C10: in a report returned after construction every declared check that is
\* neither reserved nor a constructor argument has exactly one message, a
\* pass message or a fail message, the two sequences hold nothing else, and
\* each lists its messages in the order the checks were declared.
C10_OneMessagePerCheckInOrder ==
    (pc = "returned" /\ modinstance # NoInstance) =>
        /\ Len(pass_msgs) + Len(fail_msgs) = Len(Eligible)
        /\ \A i \in 1..Len(Eligible) :
              Cardinality(MessagesFor(pass_msgs, Eligible[i].name))
                + Cardinality(MessagesFor(fail_msgs, Eligible[i].name)) = 1
        /\ \A i \in 1..Len(pass_msgs) : pass_msgs[i].passed
        /\ \A i \in 1..Len(fail_msgs) : ~fail_msgs[i].passed
        /\ InDeclaredOrder(pass_msgs)
        /\ InDeclaredOrder(fail_msgs)

C10_Witness ==
    /\ pc = "returned"
    /\ modinstance # NoInstance
    /\ Len(fail_msgs) = 2
    /\ Len(declared) > Len(Eligible)

====
